---- MODULE Spec2Model ----
(***************************************************************************)
(* Model of the anime-picker App component (React, single-threaded event   *)
(* loop).  State: the component's useState/useRef cells, the foreground    *)
(* loadAnimeData calls in flight, the live prefetchNext passes, the        *)
(* pending cooldown timer.  Time is counted in milliseconds and advances   *)
(* from one timer deadline to the next; user events and responses happen   *)
(* at these instants, in any order.                                        *)
(* List positions are 0-based as in the source; animeList[i] of the source *)
(* is At(animeList, i) here.                                               *)
(***************************************************************************)
EXTENDS Integers, Sequences, FiniteSets, Bags, TLC

VARIABLES
    animeList,      \* useState<AnimeXml[]>: the ordered ids of the loaded list
    currentIndex,   \* useState(0): the cursor
    jikanData,      \* useState<JikanAnime|null>: metadata shown as current
    choices,        \* useState<Record<string, liked|disliked>>
    likedShows,     \* useState<JikanAnime[]>
    isCooldown,     \* useState(false)
    cooldownTimer,  \* ms left on the setTimeout of handleChoice
    cache,          \* cacheRef.current: id -> JikanAnime
    loads,          \* bag of loadAnimeData calls awaiting fetch, each with the
                    \* ms left until its response must have arrived
    passes,         \* bag of prefetchNext passes suspended at an await
    xmlLoad,        \* the mount effect's promise: "pending" | "done" | "failed"
    session,        \* history: number of lists loaded so far
    sinceLastCall,  \* history: ms since the last outbound call started (capped)
    lastEvent       \* history: what the last step did

vars == <<animeList, currentIndex, jikanData, choices, likedShows, isCooldown,
          cooldownTimer, cache, loads, passes, xmlLoad, session,
          sinceLastCall, lastEvent>>

----------------------------------------------------------------------------
(* Program constants and bounds *)

PREFETCH_DELAY == 900
COOLDOWN == 1000

MaxUploads == 1
MaxVer == 2
\* every response of the service arrives within MaxLatency ms of its call
MaxLatency == 300
\* unless the call hangs: at most MaxHung calls are answered later than
\* that, or never
MaxHung == 1
\* the timer value of a call whose answer has no deadline
Never == 0 - 1

\* null of JikanAnime | null; no response of the service carries ver 0
NULL == [mal_id |-> 0, ver |-> 0]
\* the number NaN, and a number n, as parseInt returns them
NaN == [nan |-> TRUE, val |-> 0]
Num(n) == [nan |-> FALSE, val |-> n]

Min(a, b) == IF a < b THEN a ELSE b
Max(a, b) == IF a > b THEN a ELSE b

----------------------------------------------------------------------------
(* Identifiers are strings, modelled as sequences of one-character strings *)

DigitVal == [c \in {"0", "1", "2", "3", "4", "5", "6", "7", "8", "9"} |->
               CASE c = "0" -> 0 [] c = "1" -> 1 [] c = "2" -> 2 [] c = "3" -> 3
                 [] c = "4" -> 4 [] c = "5" -> 5 [] c = "6" -> 6 [] c = "7" -> 7
                 [] c = "8" -> 8 [] c = "9" -> 9]

IsDigit(c) == c \in DOMAIN DigitVal

RECURSIVE SkipSpace(_)
SkipSpace(s) == IF s # <<>> /\ Head(s) = " " THEN SkipSpace(Tail(s)) ELSE s

\* value of the longest all-digit prefix of s, continuing from acc
RECURSIVE DigitsValue(_, _)
DigitsValue(s, acc) ==
    IF s = <<>> \/ ~IsDigit(Head(s)) THEN acc
    ELSE DigitsValue(Tail(s), acc * 10 + DigitVal[Head(s)])

\* parseInt(id, 10): leading white space, an optional sign, then the longest
\* run of decimal digits; NaN when there is no digit
ParseInt(id) ==
    LET t == SkipSpace(id)
        neg == t # <<>> /\ Head(t) = "-"
        u == IF t # <<>> /\ Head(t) \in {"-", "+"} THEN Tail(t) ELSE t
    IN  IF u = <<>> \/ ~IsDigit(Head(u)) THEN NaN
        ELSE IF neg THEN Num(0 - DigitsValue(u, 0)) ELSE Num(DigitsValue(u, 0))

\* isNaN answering false for every number
IsNaNNever(n) == FALSE

\* isNaN(idNum)
IsNaN(n) == n.nan

----------------------------------------------------------------------------
(* The lists a load can produce.  shuffleArray makes every order of the    *)
(* parsed entries possible, so the lists below are in arbitrary order.     *)

\* what /anime.xml or the saved export holds: a short list, a list of one
\* entry listed twice, and a longer one with a repeated id and ids that are
\* not numbers
Lists ==
    { << <<"1">>, <<"2">>, <<"3">> >>,
      << <<"1">>, <<"1">> >>,
      << <<"1">>, <<"x">>, <<"x">>, <<"2">>, <<"1">> >> }

\* what an uploaded file holds
UploadLists == { << <<"3">> >> }

\* animeList[i], 0-based; undefined past the end
Has(list, i) == i >= 0 /\ i < Len(list)
At(list, i) == list[i + 1]

\* the JikanAnime the service returns for anime/idNum; ver distinguishes the
\* response objects of separate calls
Meta(idNum, ver) == [mal_id |-> idNum.val, ver |-> ver]

Outcomes == {"ok", "notOk", "throw"}

Cached(c, id) == id \in DOMAIN c

Put(c, id, m) == [k \in DOMAIN c \cup {id} |-> IF k = id THEN m ELSE c[k]]

Ev(type, id, call, gap, sess) ==
    [type |-> type, id |-> id, call |-> call, gap |-> gap, sess |-> sess]

----------------------------------------------------------------------------
(* prefetchNext: the loop over the look-ahead window *)

\* the loop running one position too far
WindowTooFar(cur) == {i \in (cur + 1)..(cur + 5) : i < cur + 5}

\* for (let i = currentIndex + 1; i < currentIndex + 4; i++)
Window(cur) == {i \in (cur + 1)..(cur + 4) : i < cur + 4}

\* the two `continue` tests at the head of the loop body
NeedsPrefetch(list, i, c) ==
    /\ Has(list, i)
    /\ ~Cached(c, At(list, i))
    /\ ~IsNaN(ParseInt(At(list, i)))

\* the positions at which the loop, run from position `from`, reaches an await
Pending(list, cur, from, c) ==
    {i \in Window(cur) : i >= from /\ NeedsPrefetch(list, i, c)}

SetMin(S) == CHOOSE m \in S : \A n \in S : m <= n

\* the pass suspended at its next setTimeout, as a bag of zero or one pass
RunPass(list, cur, from, c, sess) ==
    LET P == Pending(list, cur, from, c)
    IN  IF P = {} THEN EmptyBag
        ELSE SetToBag({[list |-> list, cur |-> cur, i |-> SetMin(P),
                        phase |-> "delay", timer |-> PREFETCH_DELAY,
                        sess |-> sess]})

----------------------------------------------------------------------------
(* The fetch + prefetch effect, run after a render in which animeList or   *)
(* currentIndex changed; list, idx, c, jd are the values of that render.   *)
(* The effect is part of the step of the handler whose state change caused *)
(* the render: both loadAnimeData and prefetchNext run up to their first   *)
(* await inside it.                                                        *)

\* loadAnimeData without its look into the cache
LoadFetchesAlways(list, idx, c) ==
    /\ Has(list, idx)
    /\ ~IsNaN(ParseInt(At(list, idx)))

\* loadAnimeData reaches its fetch
LoadFetches(list, idx, c) ==
    /\ Has(list, idx)
    /\ ~Cached(c, At(list, idx))
    /\ ~IsNaN(ParseInt(At(list, idx)))

EffectJikanData(list, idx, c, jd) ==
    IF ~Has(list, idx) THEN NULL
    ELSE IF Cached(c, At(list, idx)) THEN c[At(list, idx)]
    ELSE jd

\* a clean-up of the effect aborting the passes of earlier renders
KeptPassesNone(ps) == EmptyBag

\* the effect returns no clean-up function and passes no abort signal to
\* fetch: the passes started by earlier renders run on
KeptPasses(ps) == ps

Effect(list, idx, c, jd, sess, type) ==
    /\ jikanData' = EffectJikanData(list, idx, c, jd)
    /\ loads' = IF LoadFetches(list, idx, c)
                THEN loads (+) SetToBag({[id |-> At(list, idx),
                                          timer |-> MaxLatency,
                                          sess |-> sess]})
                ELSE loads
    /\ passes' = IF Has(list, idx)
                 THEN KeptPasses(passes) (+) RunPass(list, idx, idx + 1, c, sess)
                 ELSE KeptPasses(passes)
    /\ sinceLastCall' = IF LoadFetches(list, idx, c) THEN 0 ELSE sinceLastCall
    /\ lastEvent' = Ev(type, IF Has(list, idx) THEN At(list, idx) ELSE <<>>,
                       LoadFetches(list, idx, c),
                       IF LoadFetches(list, idx, c) THEN sinceLastCall ELSE 0,
                       sess)

----------------------------------------------------------------------------
Init ==
    /\ animeList = <<>>
    /\ currentIndex = 0
    /\ jikanData = NULL
    /\ choices = <<>>
    /\ likedShows = <<>>
    /\ isCooldown = FALSE
    /\ cooldownTimer = 0
    /\ cache = <<>>
    /\ loads = EmptyBag
    /\ passes = EmptyBag
    /\ xmlLoad = "pending"
    /\ session = 0
    /\ sinceLastCall = PREFETCH_DELAY
    /\ lastEvent = Ev("mount", <<>>, FALSE, PREFETCH_DELAY, 0)

\* the mount effect's promise resolves: setAnimeList(shuffleArray(parsed))
LoadXml(list) ==
    /\ xmlLoad = "pending"
    /\ xmlLoad' = "done"
    /\ animeList' = list
    /\ session' = session + 1
    /\ Effect(list, currentIndex, cache, jikanData, session + 1, "loadXml")
    /\ UNCHANGED <<currentIndex, choices, likedShows, isCooldown,
                   cooldownTimer, cache>>

\* the mount effect's promise rejects
LoadXmlFail ==
    /\ xmlLoad = "pending"
    /\ xmlLoad' = "failed"
    /\ lastEvent' = Ev("loadXmlFail", <<>>, FALSE, 0, session)
    /\ UNCHANGED <<animeList, currentIndex, jikanData, choices, likedShows,
                   isCooldown, cooldownTimer, cache, loads, passes, session,
                   sinceLastCall>>

Uploads == session - (IF xmlLoad = "done" THEN 1 ELSE 0)

\* reader.onload of handleFileUpload with a file that has entries
HandleFileUpload(list) ==
    /\ Uploads < MaxUploads
    /\ Len(list) # 0
    /\ animeList' = list
    /\ currentIndex' = 0
    /\ choices' = <<>>
    /\ likedShows' = <<>>
    /\ cache' = <<>>
    /\ session' = session + 1
    /\ Effect(list, 0, <<>>, NULL, session + 1, "upload")
    /\ UNCHANGED <<isCooldown, cooldownTimer, xmlLoad>>

\* reader.onload of handleFileUpload with a file without entries, or one that
\* fails to parse: alert, no state change
HandleFileUploadRejected ==
    /\ lastEvent' = Ev("uploadRejected", <<>>, FALSE, 0, session)
    /\ UNCHANGED <<animeList, currentIndex, jikanData, choices, likedShows,
                   isCooldown, cooldownTimer, cache, loads, passes, xmlLoad,
                   session, sinceLastCall>>

\* handleChoice without its cooldown test
ChoiceNeverIgnored == FALSE

\* if (isCooldown) return;
ChoiceIgnored == isCooldown

\* if (!anime || !jikanData) return;
ChoiceRejected == ~Has(animeList, currentIndex) \/ jikanData = NULL

\* the cursor going back to the first entry after the last one
AdvanceWrapping(i) == (i + 1) % Len(animeList)

\* setCurrentIndex((i) => i + 1)
Advance(i) == i + 1

HandleChoice(choice) ==
    IF ChoiceIgnored
    THEN /\ lastEvent' = Ev("choiceIgnored", <<>>, FALSE, 0, session)
         /\ UNCHANGED <<animeList, currentIndex, jikanData, choices,
                        likedShows, isCooldown, cooldownTimer, cache, loads,
                        passes, xmlLoad, session, sinceLastCall>>
    ELSE /\ isCooldown' = TRUE
         /\ cooldownTimer' = COOLDOWN
         /\ IF ChoiceRejected
            THEN /\ lastEvent' = Ev("choiceRejected", <<>>, FALSE, 0,
                                    session)
                 /\ UNCHANGED <<animeList, currentIndex, jikanData, choices,
                                likedShows, cache, loads, passes, xmlLoad,
                                session, sinceLastCall>>
            ELSE /\ choices' = Put(choices, At(animeList, currentIndex), choice)
                 /\ likedShows' = IF choice = "liked"
                                  THEN Append(likedShows, jikanData)
                                  ELSE likedShows
                 /\ currentIndex' = Advance(currentIndex)
                 /\ Effect(animeList, Advance(currentIndex), cache, jikanData,
                           session, choice)
                 /\ UNCHANGED <<animeList, cache, xmlLoad, session>>

\* the setTimeout callback of handleChoice: setIsCooldown(false)
CooldownExpire ==
    /\ isCooldown
    /\ cooldownTimer = 0
    /\ isCooldown' = FALSE
    /\ lastEvent' = Ev("cooldownExpire", <<>>, FALSE, 0, session)
    /\ UNCHANGED <<animeList, currentIndex, jikanData, choices, likedShows,
                   cooldownTimer, cache, loads, passes, xmlLoad, session,
                   sinceLastCall>>

\* the response stored whatever its status: no test of res.ok, no catch
CacheAfterAlways(c, id, outcome, m) == Put(c, id, m)

\* the cache after a call for id settled: cacheRef.current[id] = json.data is
\* reached only when fetch did not throw and res.ok held
CacheAfter(c, id, outcome, m) == IF outcome = "ok" THEN Put(c, id, m) ELSE c

\* the continuation of loadAnimeData after its await fetch
LoadSettle(t, outcome, ver) ==
    /\ BagIn(t, loads)
    /\ loads' = loads (-) SetToBag({t})
    /\ cache' = CacheAfter(cache, t.id, outcome, Meta(ParseInt(t.id), ver))
    /\ IF outcome = "ok"
       THEN /\ jikanData' = Meta(ParseInt(t.id), ver)
            /\ lastEvent' = Ev("loadOk", t.id, FALSE, 0, t.sess)
       ELSE /\ jikanData' = NULL
            /\ lastEvent' = Ev("loadFail", t.id, FALSE, 0, t.sess)
    /\ UNCHANGED <<animeList, currentIndex, choices, likedShows, isCooldown,
                   cooldownTimer, passes, xmlLoad, session, sinceLastCall>>

\* the fetch of a loadAnimeData call settles within MaxLatency
LoadDone(t, outcome, ver) == t.timer # Never /\ LoadSettle(t, outcome, ver)

\* the fetch of a loadAnimeData call that hung settles after all
LoadLate(t, outcome, ver) == t.timer = Never /\ LoadSettle(t, outcome, ver)

\* the 900 ms timer of a pass fires and the pass calls fetch
PrefetchFetch(p) ==
    /\ BagIn(p, passes)
    /\ p.phase = "delay"
    /\ p.timer = 0
    /\ passes' = (passes (-) SetToBag({p}))
                    (+) SetToBag({[p EXCEPT !.phase = "fetch",
                                            !.timer = MaxLatency]})
    /\ sinceLastCall' = 0
    /\ lastEvent' = Ev("prefetchCall", At(p.list, p.i), TRUE, sinceLastCall,
                       p.sess)
    /\ UNCHANGED <<animeList, currentIndex, jikanData, choices, likedShows,
                   isCooldown, cooldownTimer, cache, loads, xmlLoad, session>>

\* a failed call ending the pass: one try/catch around the whole loop
ResumeUnlessFailed(p, outcome, c) ==
    IF outcome = "ok" THEN RunPass(p.list, p.cur, p.i + 1, c, p.sess)
    ELSE EmptyBag

\* after the call for position p.i settled: the assignment to the cache, the
\* `continue` after !res.ok and the catch inside the loop body all lead to
\* the loop's i++
Resume(p, outcome, c) == RunPass(p.list, p.cur, p.i + 1, c, p.sess)

\* the pass showing the response it got, as loadAnimeData does
JikanDataAfterPrefetchSet(jd, outcome, m) == IF outcome = "ok" THEN m ELSE jd

\* prefetchNext has no setJikanData: neither after the assignment to the
\* cache nor in its catch
JikanDataAfterPrefetch(jd, outcome, m) == jd

\* the fetch of a pass settles and the loop goes on to its next await
PrefetchDone(p, outcome, ver) ==
    /\ BagIn(p, passes)
    /\ p.phase = "fetch"
    /\ p.timer # Never
    /\ cache' = CacheAfter(cache, At(p.list, p.i), outcome,
                           Meta(ParseInt(At(p.list, p.i)), ver))
    /\ passes' = (passes (-) SetToBag({p})) (+) Resume(p, outcome, cache')
    /\ jikanData' = JikanDataAfterPrefetch(jikanData, outcome,
                                           Meta(ParseInt(At(p.list, p.i)), ver))
    /\ lastEvent' = Ev(IF outcome = "ok" THEN "prefetchOk" ELSE "prefetchFail",
                       At(p.list, p.i), FALSE, 0, p.sess)
    /\ UNCHANGED <<animeList, currentIndex, choices, likedShows, isCooldown,
                   cooldownTimer, loads, xmlLoad, session, sinceLastCall>>

\* the calls whose answer has no deadline
Hung ==
    BagCardinality([t \in {u \in BagToSet(loads) : u.timer = Never}
                      |-> loads[t]])
        + BagCardinality([p \in {q \in BagToSet(passes) : q.timer = Never}
                            |-> passes[p]])

\* the fetch of a loadAnimeData call does not settle within MaxLatency: fetch
\* is given no timeout
LoadHang(t) ==
    /\ BagIn(t, loads)
    /\ t.timer # Never
    /\ Hung < MaxHung
    /\ loads' = (loads (-) SetToBag({t}))
                   (+) SetToBag({[t EXCEPT !.timer = Never]})
    /\ lastEvent' = Ev("loadHang", t.id, FALSE, 0, t.sess)
    /\ UNCHANGED <<animeList, currentIndex, jikanData, choices, likedShows,
                   isCooldown, cooldownTimer, cache, passes, xmlLoad, session,
                   sinceLastCall>>

\* the fetch of a pass never settles: the loop stays at its await
PrefetchHang(p) ==
    /\ BagIn(p, passes)
    /\ p.phase = "fetch"
    /\ p.timer # Never
    /\ Hung < MaxHung
    /\ passes' = (passes (-) SetToBag({p}))
                    (+) SetToBag({[p EXCEPT !.timer = Never]})
    /\ lastEvent' = Ev("prefetchHang", At(p.list, p.i), FALSE, 0, p.sess)
    /\ UNCHANGED <<animeList, currentIndex, jikanData, choices, likedShows,
                   isCooldown, cooldownTimer, cache, loads, xmlLoad, session,
                   sinceLastCall>>

\* a timer that has run out fires before time advances further
TimerDue ==
    \/ isCooldown /\ cooldownTimer = 0
    \/ \E p \in BagToSet(passes) : p.timer = 0
    \/ \E t \in BagToSet(loads) : t.timer = 0

\* the ms left on the pending timers
Deadlines ==
    ({p.timer : p \in BagToSet(passes)} \cup {t.timer : t \in BagToSet(loads)}
        \cup (IF isCooldown THEN {cooldownTimer} ELSE {})) \ {Never}

\* the time to the next deadline
Step == IF Deadlines = {} THEN PREFETCH_DELAY ELSE SetMin(Deadlines)

Elapse(p, d) ==
    IF p.timer = Never THEN p ELSE [p EXCEPT !.timer = Max(0, p.timer - d)]

ElapseAll(B, d) == [q \in {Elapse(p, d) : p \in BagToSet(B)} |->
                      B[CHOOSE p \in BagToSet(B) : Elapse(p, d) = q]]

Tick ==
    /\ ~TimerDue
    /\ cooldownTimer' = Max(0, cooldownTimer - Step)
    /\ passes' = ElapseAll(passes, Step)
    /\ loads' = ElapseAll(loads, Step)
    /\ sinceLastCall' = Min(PREFETCH_DELAY, sinceLastCall + Step)
    /\ lastEvent' = Ev("tick", <<>>, FALSE, 0, session)
    /\ UNCHANGED <<animeList, currentIndex, jikanData, choices, likedShows,
                   isCooldown, cache, xmlLoad, session>>

Next ==
    \/ \E list \in Lists \cup {<<>>} : LoadXml(list)
    \/ LoadXmlFail
    \/ \E list \in UploadLists : HandleFileUpload(list)
    \/ HandleFileUploadRejected
    \/ \E choice \in {"liked", "disliked"} : HandleChoice(choice)
    \/ CooldownExpire
    \/ \E t \in BagToSet(loads), o \in Outcomes, v \in 1..MaxVer :
          LoadDone(t, o, v)
    \/ \E p \in BagToSet(passes) : PrefetchFetch(p)
    \/ \E p \in BagToSet(passes), o \in Outcomes, v \in 1..MaxVer :
          PrefetchDone(p, o, v)
    \/ Tick

\* the program
Spec == Init /\ [][Next]_vars

\* the program while no file is uploaded: one loaded list
SessionNext ==
    \/ \E list \in Lists \cup {<<>>} : LoadXml(list)
    \/ LoadXmlFail
    \/ HandleFileUploadRejected
    \/ \E choice \in {"liked", "disliked"} : HandleChoice(choice)
    \/ CooldownExpire
    \/ \E t \in BagToSet(loads), o \in Outcomes, v \in 1..MaxVer :
          LoadDone(t, o, v)
    \/ \E p \in BagToSet(passes) : PrefetchFetch(p)
    \/ \E p \in BagToSet(passes), o \in Outcomes, v \in 1..MaxVer :
          PrefetchDone(p, o, v)
    \/ Tick

SessionSpec == Init /\ [][SessionNext]_vars

\* one loaded list, with calls that may hang
HangNext ==
    \/ \E list \in Lists \cup {<<>>} : LoadXml(list)
    \/ LoadXmlFail
    \/ HandleFileUploadRejected
    \/ \E choice \in {"liked", "disliked"} : HandleChoice(choice)
    \/ CooldownExpire
    \/ \E t \in BagToSet(loads), o \in Outcomes, v \in 1..MaxVer :
          LoadDone(t, o, v)
    \/ \E t \in BagToSet(loads) : LoadHang(t)
    \/ \E p \in BagToSet(passes) : PrefetchFetch(p)
    \/ \E p \in BagToSet(passes), o \in Outcomes, v \in 1..MaxVer :
          PrefetchDone(p, o, v)
    \/ \E p \in BagToSet(passes) : PrefetchHang(p)
    \/ Tick

\* The event loop runs every callback that is due: a timer that ran out
\* fires, a response that arrived is handled, time goes on.  Nothing obliges
\* the user to decide, the service to answer a hung call, or the list to
\* arrive.
HangSpec ==
    /\ Init /\ [][HangNext]_vars
    /\ WF_vars(Tick)
    /\ WF_vars(CooldownExpire)
    /\ WF_vars(\E p \in BagToSet(passes) : PrefetchFetch(p))
    /\ WF_vars(\E t \in BagToSet(loads), o \in Outcomes, v \in 1..MaxVer :
                  LoadDone(t, o, v))
    /\ WF_vars(\E p \in BagToSet(passes), o \in Outcomes, v \in 1..MaxVer :
                  PrefetchDone(p, o, v))

\* the lists whose identifiers are all numeric
NumericLists ==
    {l \in Lists : \A n \in 0..(Len(l) - 1) : ~IsNaN(ParseInt(At(l, n)))}

\* one loaded list of numeric identifiers, every call answered with success,
\* in time or late
SlowNext ==
    \/ \E list \in NumericLists : LoadXml(list)
    \/ \E choice \in {"liked", "disliked"} : HandleChoice(choice)
    \/ CooldownExpire
    \/ \E t \in BagToSet(loads), v \in 1..MaxVer : LoadDone(t, "ok", v)
    \/ \E t \in BagToSet(loads) : LoadHang(t)
    \/ \E t \in BagToSet(loads), v \in 1..MaxVer : LoadLate(t, "ok", v)
    \/ \E p \in BagToSet(passes) : PrefetchFetch(p)
    \/ \E p \in BagToSet(passes), v \in 1..MaxVer : PrefetchDone(p, "ok", v)
    \/ Tick

\* The event loop runs every callback that is due, and every call is
\* answered in the end, the late ones too.
SlowSpec ==
    /\ Init /\ [][SlowNext]_vars
    /\ WF_vars(Tick)
    /\ WF_vars(CooldownExpire)
    /\ WF_vars(\E p \in BagToSet(passes) : PrefetchFetch(p))
    /\ WF_vars(\E t \in BagToSet(loads), v \in 1..MaxVer : LoadDone(t, "ok", v))
    /\ WF_vars(\E t \in BagToSet(loads), v \in 1..MaxVer : LoadLate(t, "ok", v))
    /\ WF_vars(\E p \in BagToSet(passes), v \in 1..MaxVer :
                  PrefetchDone(p, "ok", v))

----------------------------------------------------------------------------
TypeOK ==
    /\ currentIndex \in Nat
    /\ isCooldown \in BOOLEAN
    /\ cooldownTimer \in 0..COOLDOWN
    /\ \A t \in BagToSet(loads) : t.timer \in {Never} \cup 0..MaxLatency
    /\ \A p \in BagToSet(passes) : p.timer \in {Never} \cup 0..PREFETCH_DELAY
    /\ sinceLastCall \in 0..PREFETCH_DELAY
    /\ IsABag(loads) /\ IsABag(passes)

----------------------------------------------------------------------------
(* Definitions used by the properties *)

Choices == {"liked", "disliked"}

\* the outbound calls in flight for the identifier id
LoadsFor(id) == {t \in BagToSet(loads) : t.id = id}
FetchesFor(id) ==
    {p \in BagToSet(passes) : p.phase = "fetch" /\ At(p.list, p.i) = id}

InFlight(id) ==
    BagCardinality([t \in LoadsFor(id) |-> loads[t]])
        + BagCardinality([p \in FetchesFor(id) |-> passes[p]])

CallIds ==
    {t.id : t \in BagToSet(loads)}
        \cup {At(p.list, p.i) : p \in {q \in BagToSet(passes) : q.phase = "fetch"}}

\* m is the metadata the service holds for the entry with identifier id
IsMetadataOf(m, id) ==
    /\ m # NULL
    /\ ~IsNaN(ParseInt(id))
    /\ m.mal_id = ParseInt(id).val

\* cursor past the end of a loaded list
Exhausted == Len(animeList) > 0 /\ currentIndex >= Len(animeList)

\* the whole state but the record of the last step
state == <<animeList, currentIndex, jikanData, choices, likedShows,
           isCooldown, cooldownTimer, cache, loads, passes, xmlLoad, session,
           sinceLastCall>>

----------------------------------------------------------------------------
\* C1: for every identifier, at most one outbound call to the metadata
\* service is in flight at any time, whatever the interleaving of foreground
\* resolves and prefetch passes.
C1_AtMostOneCallInFlight == \A id \in CallIds : InFlight(id) <= 1

\* C2: within a session a populated cache key keeps its value: no step
\* overwrites or removes it.
C2_CacheAppendOnly ==
    [][session' = session =>
         \A k \in DOMAIN cache : k \in DOMAIN cache' /\ cache'[k] = cache[k]]_vars

\* C3: every outbound call starts at least PREFETCH_DELAY ms after the start
\* of the outbound call before it.
C3_MinGapBetweenCalls == lastEvent.call => lastEvent.gap >= PREFETCH_DELAY

\* C4: right after a new list is loaded by an upload the cursor is 0,
\* decisions, liked list and cache are empty and no resolve of the prior list
\* is in flight; and no call issued for a prior list populates the cache or
\* sets the current metadata afterwards.
C4_FullReset ==
    /\ lastEvent.type = "upload" =>
          /\ currentIndex = 0
          /\ choices = <<>>
          /\ likedShows = <<>>
          /\ \A k \in DOMAIN cache : FALSE
          /\ \A t \in BagToSet(loads) : t.sess = session
          /\ \A p \in BagToSet(passes) : p.sess = session
    /\ lastEvent.type \in {"loadOk", "prefetchOk"} => lastEvent.sess = session

\* C5: while the cooldown is active no decision is recorded and the cursor
\* does not move, and a decision submitted then changes nothing: of two
\* decisions within one cooldown window only the first one counts.
C5_Debounce ==
    [][isCooldown /\ session' = session =>
         /\ currentIndex' = currentIndex
         /\ choices' = choices
         /\ likedShows' = likedShows
         /\ \A ch \in Choices : HandleChoice(ch) => state' = state]_vars

\* C5 witness: a decision was accepted (the cooldown and the resolve of the
\* next entry both started at this instant) and a second decision has just
\* been discarded.
C5_Witness ==
    /\ lastEvent.type = "choiceIgnored"
    /\ isCooldown /\ cooldownTimer = COOLDOWN
    /\ currentIndex = 1
    /\ DOMAIN choices = {At(animeList, 0)}
    /\ \E t \in BagToSet(loads) :
          t.id = At(animeList, 1) /\ t.timer = MaxLatency

\* C6: a decision is accepted (the cursor advances) only when the cooldown is
\* not active and the current metadata is the resolved metadata of the
\* current entry.
C6_DecisionNeedsResolved ==
    [][currentIndex' = currentIndex + 1 =>
         /\ ~isCooldown
         /\ Has(animeList, currentIndex)
         /\ IsMetadataOf(jikanData, At(animeList, currentIndex))]_vars

\* C7: when a prefetch pass issues an outbound call, the target identifier is
\* neither cached nor the target of another call in flight.
C7_WarmSkipsCachedAndInFlight ==
    lastEvent.type = "prefetchCall" =>
        /\ ~Cached(cache, lastEvent.id)
        /\ InFlight(lastEvent.id) = 1

\* C8: a prefetch pass started at cursor c only targets positions c+1 .. c+3
\* that exist in its list.
C8_WindowPositions ==
    \A p \in BagToSet(passes) :
        /\ p.i >= p.cur + 1
        /\ p.i <= p.cur + 3
        /\ Has(p.list, p.i)

\* C8 witness: a pass has called the service for the last position of its
\* window and the list goes on beyond that position.
C8_Witness ==
    \E p \in BagToSet(passes) :
        p.phase = "fetch" /\ p.i = p.cur + 3 /\ Has(p.list, p.cur + 4)

\* C9: an accepted liked decision at cursor c appends the resolved metadata
\* of list[c] to the liked list, records liked under the entry's identifier
\* and moves the cursor to c+1; an accepted disliked decision records
\* disliked, moves the cursor by one and leaves the liked list unchanged.
C9_DecisionEffect ==
    [][\A ch \in Choices :
         HandleChoice(ch) /\ currentIndex' # currentIndex =>
            /\ currentIndex' = currentIndex + 1
            /\ choices'[At(animeList, currentIndex)] = ch
            /\ IF ch = "liked"
               THEN /\ Len(likedShows') = Len(likedShows) + 1
                    /\ SubSeq(likedShows', 1, Len(likedShows)) = likedShows
                    /\ IsMetadataOf(likedShows'[Len(likedShows')],
                                    At(animeList, currentIndex))
               ELSE likedShows' = likedShows]_vars

\* C10: while the cursor is past the end of the list no outbound call is
\* started.
C10_NoCallWhenExhausted == Exhausted => ~lastEvent.call

\* C11: an entry whose identifier does not parse as a number is never the
\* target of an outbound call, neither of loadAnimeData nor of a prefetch
\* pass, and no pass waits its delay for such an entry.
C11_NonNumericNeverSent ==
    /\ \A t \in BagToSet(loads) : ParseInt(t.id) # NaN
    /\ \A p \in BagToSet(passes) : ParseInt(At(p.list, p.i)) # NaN
    /\ lastEvent.call => ParseInt(lastEvent.id) # NaN

\* C11 witness: a decision has just moved the cursor to an entry that is not
\* numeric, no call was made for it, and the pass started at this instant
\* went past a non-numeric window entry and waits its first delay in full
\* for a later one.
C11_Witness ==
    /\ lastEvent.type \in Choices /\ ~lastEvent.call
    /\ Has(animeList, currentIndex)
    /\ ParseInt(At(animeList, currentIndex)) = NaN
    /\ \E p \in BagToSet(passes) :
          /\ p.cur = currentIndex /\ p.phase = "delay"
          /\ p.timer = PREFETCH_DELAY
          /\ \E j \in (p.cur + 1)..(p.i - 1) : ParseInt(At(p.list, j)) = NaN

\* the window positions after position i of pass p that are in the list,
\* not cached in c and numeric
Remaining(p, c) ==
    {j \in (p.i + 1)..(p.cur + 3) :
        Has(p.list, j) /\ ~Cached(c, At(p.list, j))
            /\ ParseInt(At(p.list, j)) # NaN}

\* C12: when the call of a pass for one window entry fails (status not ok,
\* or fetch throwing), nothing but the pass itself changes, and the pass
\* goes on: it waits the delay for the first remaining window entry that is
\* uncached and numeric.
C12_FailureDoesNotAbortPass ==
    [][\A p \in BagToSet(passes), o \in Outcomes \ {"ok"}, v \in 1..MaxVer :
         PrefetchDone(p, o, v) =>
            /\ <<animeList, currentIndex, jikanData, choices, likedShows,
                 isCooldown, cache, loads, session>>'
                  = <<animeList, currentIndex, jikanData, choices, likedShows,
                      isCooldown, cache, loads, session>>
            /\ \A j \in Remaining(p, cache) :
                  (\A k \in Remaining(p, cache) : j <= k) =>
                     \E q \in BagToSet(passes') :
                        /\ q.list = p.list /\ q.cur = p.cur /\ q.sess = p.sess
                        /\ q.i = j /\ q.phase = "delay"
                        /\ q.timer = PREFETCH_DELAY]_vars

\* C12 witness: a call of a pass has just failed and that pass now waits
\* the delay for a later entry of its window.
C12_Witness ==
    /\ lastEvent.type = "prefetchFail"
    /\ \E q \in BagToSet(passes) :
          /\ q.phase = "delay" /\ q.timer = PREFETCH_DELAY
          /\ q.sess = lastEvent.sess
          /\ \E j \in (q.cur + 1)..(q.i - 1) : At(q.list, j) = lastEvent.id

\* the number of outbound calls in flight
Calls(ld, ps) ==
    BagCardinality(ld)
        + BagCardinality([p \in {q \in BagToSet(ps) : q.phase = "fetch"}
                            |-> ps[p]])

\* C13: the step in which a call fails leaves the cache as it was (a key
\* that was absent stays absent), starts no call (the failed call is gone and
\* none replaces it), and, when the call was made by loadAnimeData, leaves
\* the current metadata null; a key left absent is fetched again when a
\* later resolve asks for it.
C13_FailedResolve ==
    [][lastEvent'.type \in {"loadFail", "prefetchFail"} =>
         /\ cache' = cache
         /\ ~lastEvent'.call
         /\ Calls(loads', passes') = Calls(loads, passes) - 1
         /\ lastEvent'.type = "loadFail" => jikanData' = NULL
         /\ ~Cached(cache', lastEvent'.id) =>
               /\ LoadFetches(<<lastEvent'.id>>, 0, cache')
               /\ NeedsPrefetch(<<lastEvent'.id>>, 0, cache')]_vars

\* C13 witness: the call loadAnimeData made for the current entry has just
\* failed: the entry is not cached, nothing is shown for it and no call for
\* it is in flight.
C13_Witness ==
    /\ lastEvent.type = "loadFail"
    /\ Has(animeList, currentIndex)
    /\ lastEvent.id = At(animeList, currentIndex)
    /\ ~Cached(cache, lastEvent.id)
    /\ jikanData = NULL
    /\ InFlight(lastEvent.id) = 0
    /\ currentIndex > 0

\* C14: no identifier is cached while a call for it is in flight or waits
\* behind the delay of a pass.
C14_AbsentInFlightOrCached ==
    /\ \A t \in BagToSet(loads) : ~Cached(cache, t.id)
    /\ \A p \in BagToSet(passes) : ~Cached(cache, At(p.list, p.i))

C16_DecisionsNeverOverwritten ==
    [][session' = session =>
         \A k \in DOMAIN choices :
            k \in DOMAIN choices' /\ choices'[k] = choices[k]]_vars

\* C17: a decision that moves the cursor leaves every live pass in place,
\* whatever position it targets, and when the call of a pass of the current
\* session succeeds after the cursor went past its target position, the
\* response is stored in the cache under the target's identifier.
C17_PrefetchNotCancelled ==
    [][/\ lastEvent'.type \in Choices =>
            \A p \in BagToSet(passes) :
                CopiesIn(p, passes') >= CopiesIn(p, passes)
       /\ \A p \in BagToSet(passes), v \in 1..MaxVer :
            PrefetchDone(p, "ok", v) /\ p.sess = session
                /\ currentIndex > p.i =>
               /\ Cached(cache', At(p.list, p.i))
               /\ cache'[At(p.list, p.i)]
                     = Meta(ParseInt(At(p.list, p.i)), v)]_vars

\* C17 witness: the response to a prefetch call of the current session has
\* just been stored although the cursor is past every position that carries
\* the call's identifier.
C17_Witness ==
    /\ lastEvent.type = "prefetchOk"
    /\ lastEvent.sess = session
    /\ \E j \in 0..(Len(animeList) - 1) : At(animeList, j) = lastEvent.id
    /\ \A j \in 0..(Len(animeList) - 1) :
          At(animeList, j) = lastEvent.id => j < currentIndex
    /\ IsMetadataOf(cache[lastEvent.id], lastEvent.id)

\* the identifiers of the lists
Ids == UNION {{At(l, n) : n \in 0..(Len(l) - 1)} : l \in Lists}

\* a pass of the current session is held at a call that is never answered
\* and has not reached a later window entry carrying id, which is numeric and
\* not cached
BehindHungCall(id) ==
    \E p \in BagToSet(passes) :
        /\ p.phase = "fetch" /\ p.timer = Never /\ p.sess = session
        /\ \E j \in Remaining(p, cache) : At(p.list, j) = id

\* C18: when the call of a pass for one window entry is never answered,
\* every other window entry of that pass that is uncached and numeric is
\* eventually requested (or found cached), and a decision moving the cursor
\* to an uncached numeric entry still makes loadAnimeData call the service.
C18_HungCallBlocksOnlyItsId ==
    /\ \A id \in Ids :
          BehindHungCall(id) ~> (InFlight(id) > 0 \/ Cached(cache, id))
    /\ [][(\E p \in BagToSet(passes) : p.timer = Never)
            /\ currentIndex' = currentIndex + 1
            /\ LoadFetches(animeList, currentIndex', cache)
          => lastEvent'.call /\ lastEvent'.id = At(animeList, currentIndex')]_vars

\* C19: a step of a prefetch pass (its call to the service, the success or
\* the failure of that call) and the passing of its delay leave the cursor,
\* the current metadata, the decisions, the liked list and the cooldown flag
\* as they are.
C19_PrefetchOnlyChangesCache ==
    [][lastEvent'.type \in {"prefetchCall", "prefetchOk", "prefetchFail",
                            "tick"} =>
         <<currentIndex, jikanData, choices, likedShows, isCooldown>>'
            = <<currentIndex, jikanData, choices, likedShows, isCooldown>>]_vars

\* C19 witness: the response to a prefetch call has just been stored while
\* the metadata of another entry is shown, a decision is recorded, a show is
\* liked and the cooldown runs.
C19_Witness ==
    /\ lastEvent.type = "prefetchOk"
    /\ jikanData # NULL
    /\ jikanData.mal_id # cache[lastEvent.id].mal_id
    /\ currentIndex > 0
    /\ Len(likedShows) > 0
    /\ isCooldown

\* C20: when the cursor moves to an entry whose identifier is in the cache,
\* the step starts no outbound call and the current metadata is the cached
\* value at once.
C20_CachedEntryNoCall ==
    [][/\ currentIndex' # currentIndex
       /\ Has(animeList', currentIndex')
       /\ Cached(cache', At(animeList', currentIndex'))
       => /\ ~lastEvent'.call
          /\ loads' = loads
          /\ Calls(loads', passes') = Calls(loads, passes)
          /\ jikanData' = cache'[At(animeList', currentIndex')]]_vars

\* C20 witness: a decision has just moved the cursor to an entry that a
\* prefetch pass had cached: its metadata is shown and no call was started.
C20_Witness ==
    /\ lastEvent.type \in Choices /\ ~lastEvent.call
    /\ currentIndex > 0 /\ Has(animeList, currentIndex)
    /\ At(animeList, currentIndex) # At(animeList, currentIndex - 1)
    /\ Cached(cache, At(animeList, currentIndex))
    /\ jikanData = cache[At(animeList, currentIndex)]
    /\ IsMetadataOf(jikanData, At(animeList, currentIndex))
    /\ loads = EmptyBag

\* C21: whenever metadata is shown and the cursor is inside the list, the
\* metadata shown is that of the entry at the cursor.
C21_ShownIsCurrent ==
    jikanData # NULL /\ Has(animeList, currentIndex) =>
        IsMetadataOf(jikanData, At(animeList, currentIndex))

\* the positions the cursor has left whose identifier has liked recorded
LikedPositions ==
    {j \in 0..(currentIndex - 1) :
        /\ Has(animeList, j)
        /\ Cached(choices, At(animeList, j))
        /\ choices[At(animeList, j)] = "liked"}

\* C22: every element of the liked list is the metadata of an entry the
\* cursor has left and whose recorded decision is liked, and the liked list
\* has no more elements than there are such entries.
C22_LikedAreLikedEntries ==
    /\ \A n \in 1..Len(likedShows) :
          \E j \in LikedPositions :
              IsMetadataOf(likedShows[n], At(animeList, j))
    /\ Len(likedShows) <= Cardinality(LikedPositions)

\* C23: a decision submitted outside the cooldown with no metadata shown, or
\* with the cursor past the end of the list, changes nothing: in particular
\* it starts no cooldown.
C23_RejectedChangesNothing ==
    [][\A ch \in Choices :
         HandleChoice(ch) /\ ~ChoiceIgnored /\ ChoiceRejected =>
            state' = state /\ isCooldown' = isCooldown]_vars

\* the positions of the lists
Positions == UNION {0..(Len(l) - 1) : l \in Lists}

\* the metadata shown is that of the entry at the cursor
ShownIsCurrent ==
    /\ Has(animeList, currentIndex)
    /\ IsMetadataOf(jikanData, At(animeList, currentIndex))

\* C24: with numeric identifiers and every call answered with success,
\* whenever the cursor is inside the list the metadata of the entry at the
\* cursor is shown in the end, and once shown it stays shown until the
\* cursor moves or a list is loaded, in whatever order the answers arrive.
C24_ShownInTheEndAndStays ==
    /\ \A c \in Positions :
          (Has(animeList, c) /\ currentIndex = c)
              ~> (currentIndex # c \/ ShownIsCurrent)
    /\ [][ShownIsCurrent /\ currentIndex' = currentIndex /\ session' = session
            => ShownIsCurrent']_vars

====
